---- MODULE Spec2Model ----
(***************************************************************************)
(* Model of img/raw/compose_swipefish_card_from_csv.py: the batch driver   *)
(* (__main__), find_persona_images, lookup_persona_from_csv, the output    *)
(* slug and the layout arithmetic of compose_card.                         *)
(*                                                                         *)
(* Text and image sizes are integers (pixels).  Python's int() truncates   *)
(* towards zero; the float products the script truncates are reproduced    *)
(* as exact integer quotients (Trunc).  For the illustration sizes used    *)
(* here (powers of two) and for th*0.85, 30*(A/60) in the ranges reached   *)
(* the double-precision results equal these quotients.                     *)
(***************************************************************************)
EXTENDS Integers, Sequences, FiniteSets, TLC

VARIABLES
    pc,             \* position of __main__: "start","find","loop","done","exit"
    templateExists, \* os.path.exists(TEMPLATE_PATH)
    dirFiles,       \* number of illustration files in SCRIPT_DIR that match
    titleFont,      \* what load_font returns for the title: "truetype" | "default"
    nImages,        \* len(persona_images) in __main__, -1 before it is assigned
    cards,          \* one record per finished loop iteration, in list order
    frame,          \* compose_card's locals (gaps, bottom padding) of the last call
    exitStatus,     \* process exit status once pc is "done" or "exit"
    listing,        \* find_persona_images: what glob sees in the directory
    found,          \* find_persona_images: its return value
    rawTitle,       \* the CSV cell "Persona" of the row looked up
    slug,           \* persona_title_safe
    slugAgain,      \* the slug rule applied to slug
    outputName,     \* output_filename
    phase           \* position of the find / slug runs

vars == <<pc, templateExists, dirFiles, titleFont, nImages, cards, frame, exitStatus,
          listing, found, rawTitle, slug, slugAgain, outputName, phase>>

----------------------------------------------------------------------------
(* Program constants                                                        *)

CANVAS_WIDTH == 1080
CANVAS_HEIGHT == 1920
HORIZONTAL_PADDING == 200
TITLE_FONT_SIZE == 120
TOP_PADDING == 400
LINE_SPACING == 10
TAGLINE_SAFETY_MARGIN == 40
TARGET_BOTTOM_LIMIT == 170
MIN_TAGLINE_MARGIN == 30

(* Bounds of the model                                                      *)
MaxCards == 3
MaxRuns == 2
MaxFiles == 2
MaxDigits == 3
MaxTitleLen == 4

----------------------------------------------------------------------------
(* Arithmetic helpers                                                       *)

Max(a, b) == IF a >= b THEN a ELSE b

\* Python int(n / d) for d > 0: truncation towards zero.
Trunc(n, d) == IF n >= 0 THEN n \div d ELSE -((-n) \div d)

----------------------------------------------------------------------------
(* Text measurement (draw.textbbox) and fonts (load_font)                   *)

\* Width of the upper-cased title of n characters in the font load_font
\* returned for the requested size.  A TrueType face scales with the size
\* (0.6 em per glyph); the last-resort ImageFont.load_default() ignores it.
TitleWidth(font, n, size) ==
    IF font = "truetype" THEN (n * 72 * size) \div TITLE_FONT_SIZE ELSE n * 6

TitleHeight(font, size) ==
    IF font = "truetype" THEN (size * 3) \div 4 ELSE 11

\* The tagline measuring loop.  lines[i] is the bbox bottom of wrapped line i
\* relative to its drawing origin; st = <<test_y, max_bottom>>.
RECURSIVE MeasureLoop(_, _, _)
MeasureLoop(lines, i, st) ==
    IF i > Len(lines) THEN st
    ELSE LET bottom == st[1] + lines[i]
             maxb   == Max(st[2], bottom)
         IN  MeasureLoop(lines, i + 1,
                 <<IF i < Len(lines) THEN bottom + LINE_SPACING ELSE bottom, maxb>>)

\* max(test_y, max_bottom) of the loop started at y0
TaglineExtent(lines, y0) ==
    LET st == MeasureLoop(lines, 1, <<y0, 0>>) IN Max(st[1], st[2])

MeasureTagline(lines) == TaglineExtent(lines, 0) + TAGLINE_SAFETY_MARGIN

----------------------------------------------------------------------------
(* compose_card: the layout, stage by stage.  Each stage takes the record  *)
(* of compose_card's local variables and returns it updated; exc names the *)
(* exception raised so far ("none" while the call is still running).       *)

\* The values the layout locals are given at the top of compose_card.
LayoutDefaults ==
    [BOTTOM_PADDING |-> 80, MIN_GAP_TITLE_IMAGE |-> 30, MIN_GAP_IMAGE_TAGLINE |-> 30]

\* Mutation of EnterLayout: the gaps and the bottom padding are kept from the
\* previous call (module-level values instead of locals).
EnterLayout_carriesOver(prev) == prev

\* The layout locals at the top of a call; prev is the record the previous
\* call left, which a fresh call does not read.
EnterLayout(prev) == LayoutDefaults

\* Mutation of Caught: only the ValueError clause is there.
Caught_onlyValueError(exc) == exc = "ValueError"

\* The exceptions the batch loop's except clauses catch.
Caught(exc) == exc \in {"ValueError", "UnidentifiedImageError"}

\* Mutation of WidthBinds: the larger ratio is taken (max for min).
WidthBinds_larger(aw, ah, max_w, max_h) == max_w * ah >= max_h * aw

\* scale = min(scale_width, scale_height): TRUE when the width ratio is the
\* smaller one (max_w / aw <= max_h / ah).
WidthBinds(aw, ah, max_w, max_h) == max_w * ah <= max_h * aw

\* new_size = (int(aw * scale), int(ah * scale))
ScaledSize(aw, ah, max_w, max_h) ==
    IF WidthBinds(aw, ah, max_w, max_h)
    THEN <<Trunc(aw * max_w, aw), Trunc(ah * max_w, aw)>>
    ELSE <<Trunc(aw * max_h, ah), Trunc(ah * max_h, ah)>>

\* Mutation of ResizeOk: any size is accepted.
ResizeOk_acceptsEmpty(size) == TRUE

\* art.resize(new_size): the resampler rejects an empty or negative size.
ResizeOk(size) == size[1] >= 1 /\ size[2] >= 1

\* Title fit: measure at the nominal size, scale the font down when too wide.
TitleFit(font, s) ==
    LET max_text_width == CANVAS_WIDTH - (HORIZONTAL_PADDING * 2)
        tw0   == TitleWidth(font, s.titleLen, TITLE_FONT_SIZE)
        wide  == tw0 > max_text_width
        size  == IF wide THEN Trunc(TITLE_FONT_SIZE * max_text_width, tw0)
                         ELSE TITLE_FONT_SIZE
        tw    == IF wide THEN TitleWidth(font, s.titleLen, size) ELSE tw0
        th    == TitleHeight(font, size)
    IN  [s EXCEPT !.tw_nominal = tw0, !.font_size = size, !.tw = tw, !.th = th,
                  !.title_bottom = TOP_PADDING + Trunc(th * 85, 100)]

\* Tagline pre-measurement.
TaglineSize(s) ==
    [s EXCEPT !.tagline_total_height = MeasureTagline(s.lines)]

\* Image.open(illustration_path)
OpenIllustration(s) ==
    IF s.readable THEN s ELSE [s EXCEPT !.exc = "UnidentifiedImageError"]

\* Mutation of ImageBudget: a first budget under 200 goes straight to the
\* bottom padding; the gaps are never tried.
ImageBudget_paddingFirst(s) ==
    LET H  == CANVAS_HEIGHT
        tb == s.title_bottom
        T  == s.tagline_total_height
        g1 == s.MIN_GAP_TITLE_IMAGE
        g2 == s.MIN_GAP_IMAGE_TAGLINE
        first == H - tb - g1 - g2 - T - TARGET_BOTTOM_LIMIT
    IN  IF s.exc # "none" THEN s
        ELSE IF first >= 200
        THEN [s EXCEPT !.first_budget = first, !.max_art_height = first]
        ELSE [s EXCEPT !.first_budget = first, !.reducedPadding = TRUE,
                       !.max_art_height = H - tb - g1 - g2 - T - 20,
                       !.BOTTOM_PADDING = 20]

\* The first height budget, with the gap and bottom-padding adjustments.
ImageBudget(s) ==
    LET H  == CANVAS_HEIGHT
        tb == s.title_bottom
        T  == s.tagline_total_height
        g1 == s.MIN_GAP_TITLE_IMAGE
        g2 == s.MIN_GAP_IMAGE_TAGLINE
        first == H - tb - g1 - g2 - T - TARGET_BOTTOM_LIMIT
        total_required == tb + T + s.BOTTOM_PADDING
        available_for_gaps == H - total_required - 200
        \* int(gap * (available_for_gaps / (g1 + g2)))
        n1 == Max(10, Trunc(g1 * available_for_gaps, g1 + g2))
        n2 == Max(10, Trunc(g2 * available_for_gaps, g1 + g2))
    IN  IF s.exc # "none" THEN s
        ELSE IF first >= 200
        THEN [s EXCEPT !.first_budget = first, !.max_art_height = first]
        ELSE IF available_for_gaps > 0
        THEN [s EXCEPT !.first_budget = first, !.adjustedGaps = TRUE,
                       !.MIN_GAP_TITLE_IMAGE = n1, !.MIN_GAP_IMAGE_TAGLINE = n2,
                       !.max_art_height = H - tb - n1 - n2 - T - s.BOTTOM_PADDING]
        ELSE [s EXCEPT !.first_budget = first, !.reducedPadding = TRUE,
                       !.max_art_height = H - tb - g1 - g2 - T - 20,
                       !.BOTTOM_PADDING = 20]

\* Mutation of PlaceIllustration: the scaled height is rounded up instead of
\* truncated.
PlaceIllustration_roundsUp(s) ==
    LET max_art_width == CANVAS_WIDTH - (HORIZONTAL_PADDING * 2)
        size == ScaledSize(s.aw, s.ah, max_art_width, s.max_art_height)
        top  == s.title_bottom + s.MIN_GAP_TITLE_IMAGE
    IN  IF s.exc # "none" THEN s
        ELSE IF ~ResizeOk(size) THEN [s EXCEPT !.exc = "ValueError"]
        ELSE [s EXCEPT !.placed = TRUE, !.budget_at_place = s.max_art_height,
                       !.aw2 = size[1], !.ah2 = size[2] + 1,
                       !.art_x = (CANVAS_WIDTH - size[1]) \div 2,
                       !.illus_top = top, !.art_y = top,
                       !.actual_image_bottom = top + size[2] + 1]

\* Scale, resize and place the illustration.
PlaceIllustration(s) ==
    LET max_art_width == CANVAS_WIDTH - (HORIZONTAL_PADDING * 2)
        size == ScaledSize(s.aw, s.ah, max_art_width, s.max_art_height)
        top  == s.title_bottom + s.MIN_GAP_TITLE_IMAGE
    IN  IF s.exc # "none" THEN s
        ELSE IF ~ResizeOk(size) THEN [s EXCEPT !.exc = "ValueError"]
        ELSE [s EXCEPT !.placed = TRUE, !.budget_at_place = s.max_art_height,
                       !.aw2 = size[1], !.ah2 = size[2],
                       !.art_x = (CANVAS_WIDTH - size[1]) \div 2,
                       !.illus_top = top, !.art_y = top,
                       !.actual_image_bottom = top + size[2]]

\* A later resize against a tighter height budget mh (art_x is not recomputed).
Reshrink(s, mh) ==
    LET size == ScaledSize(s.aw, s.ah, CANVAS_WIDTH - (HORIZONTAL_PADDING * 2), mh)
    IN  IF ~ResizeOk(size) THEN [s EXCEPT !.exc = "ValueError", !.max_art_height = mh]
        ELSE [s EXCEPT !.max_art_height = mh, !.aw2 = size[1], !.ah2 = size[2],
                       !.actual_image_bottom = s.art_y + size[2]]

\* "Image extends beyond calculated space"
OverflowCorrection(s) ==
    LET H    == CANVAS_HEIGHT
        T    == s.tagline_total_height
        g2   == s.MIN_GAP_IMAGE_TAGLINE
        lim  == H - g2 - T - s.BOTTOM_PADDING
        mh   == lim - s.illus_top
        lim2 == H - g2 - T - 20
    IN  IF s.exc # "none" \/ s.actual_image_bottom <= lim THEN s
        ELSE IF mh < 100
        THEN Reshrink([s EXCEPT !.corrected = TRUE, !.reducedPadding = TRUE,
                                !.BOTTOM_PADDING = 20], lim2 - s.illus_top)
        ELSE Reshrink([s EXCEPT !.corrected = TRUE], mh)

\* "CRITICAL: Tagline won't fit"
FinalVerification(s) ==
    LET H == CANVAS_HEIGHT
        expected_tagline_end ==
            s.actual_image_bottom + s.MIN_GAP_IMAGE_TAGLINE + s.tagline_total_height
        max_image_bottom ==
            (H - s.BOTTOM_PADDING - s.MIN_GAP_IMAGE_TAGLINE) - s.tagline_total_height
    IN  IF s.exc # "none" \/ expected_tagline_end <= H - s.BOTTOM_PADDING THEN s
        ELSE IF max_image_bottom > s.illus_top
        THEN Reshrink([s EXCEPT !.critical = TRUE], max_image_bottom - s.illus_top)
        ELSE [s EXCEPT !.critical = TRUE]

\* img.alpha_composite(art_resized, (art_x, art_y))
Composite(s) ==
    IF s.exc # "none" THEN s
    ELSE [s EXCEPT !.composited = TRUE,
                   !.pasted = [x |-> s.art_x, y |-> s.art_y, w |-> s.aw2, h |-> s.ah2]]

\* Title drawing.  text_x may be a half pixel: text_x2 is twice text_x.
TitleDraw(s) ==
    LET max_text_width == CANVAS_WIDTH - (HORIZONTAL_PADDING * 2)
        x0 == 2 * HORIZONTAL_PADDING + (max_text_width - s.tw)
        x1 == Max(2 * HORIZONTAL_PADDING, x0)
        x2 == IF x1 + 2 * s.tw > 2 * (CANVAS_WIDTH - HORIZONTAL_PADDING)
              THEN 2 * (CANVAS_WIDTH - HORIZONTAL_PADDING - s.tw) ELSE x1
    IN  IF s.exc # "none" THEN s ELSE [s EXCEPT !.text_x2 = x2, !.titleDrawn = TRUE]

\* Mutation of TaglinePlacement: the second measurement adds the line spacing
\* after the last line as well.
TaglinePlacement_spacingAfterLast(s) ==
    LET H        == CANVAS_HEIGHT
        measured == MeasureTagline(s.lines) + LINE_SPACING
        start0   == s.actual_image_bottom + s.MIN_GAP_IMAGE_TAGLINE
        end_y    == H - s.BOTTOM_PADDING
        pulled   == end_y - measured
        min_y    == s.actual_image_bottom + 10
        max_image_bottom == (H - s.BOTTOM_PADDING - 10) - measured
        m  == [s EXCEPT !.measured_tagline_height = measured]
        r  == Reshrink([m EXCEPT !.pulledUp = TRUE, !.wontFit = TRUE, !.reshrunk = TRUE],
                       max_image_bottom - s.illus_top)
    IN  IF s.exc # "none" THEN s
        ELSE IF start0 + measured <= end_y
        THEN [m EXCEPT !.tagline_start_y = start0]
        ELSE IF pulled >= min_y
        THEN [m EXCEPT !.pulledUp = TRUE, !.tagline_start_y = pulled]
        ELSE IF max_image_bottom > s.illus_top
        THEN [r EXCEPT !.tagline_start_y = r.actual_image_bottom + 10]
        ELSE [m EXCEPT !.pulledUp = TRUE, !.wontFit = TRUE, !.cannotFit = TRUE,
                       !.tagline_start_y = min_y]

\* Tagline placement: start below the image, pull up at the bottom limit,
\* shrink the image again when even the 10 px gap does not fit.
TaglinePlacement(s) ==
    LET H        == CANVAS_HEIGHT
        measured == MeasureTagline(s.lines)
        start0   == s.actual_image_bottom + s.MIN_GAP_IMAGE_TAGLINE
        end_y    == H - s.BOTTOM_PADDING
        pulled   == end_y - measured
        min_y    == s.actual_image_bottom + 10
        max_image_bottom == (H - s.BOTTOM_PADDING - 10) - measured
        m  == [s EXCEPT !.measured_tagline_height = measured]
        r  == Reshrink([m EXCEPT !.pulledUp = TRUE, !.wontFit = TRUE, !.reshrunk = TRUE],
                       max_image_bottom - s.illus_top)
    IN  IF s.exc # "none" THEN s
        ELSE IF start0 + measured <= end_y
        THEN [m EXCEPT !.tagline_start_y = start0]
        ELSE IF pulled >= min_y
        THEN [m EXCEPT !.pulledUp = TRUE, !.tagline_start_y = pulled]
        ELSE IF max_image_bottom > s.illus_top
        THEN [r EXCEPT !.tagline_start_y = r.actual_image_bottom + 10]
        ELSE [m EXCEPT !.pulledUp = TRUE, !.wontFit = TRUE, !.cannotFit = TRUE,
                       !.tagline_start_y = min_y]

\* Final clamp against H - BOTTOM_PADDING - MIN_TAGLINE_MARGIN.
FinalClamp(s) ==
    LET max_allowed_tagline_end == CANVAS_HEIGHT - s.BOTTOM_PADDING - MIN_TAGLINE_MARGIN
    IN  IF s.exc # "none" THEN s
        ELSE IF s.tagline_start_y + s.measured_tagline_height > max_allowed_tagline_end
        THEN [s EXCEPT !.clamped = TRUE, !.start_before_clamp = s.tagline_start_y,
                       !.tagline_start_y = max_allowed_tagline_end - s.measured_tagline_height]
        ELSE [s EXCEPT !.start_before_clamp = s.tagline_start_y]

\* Mutation of DrawAndSave: a clamped tagline loses its last line.
DrawAndSave_clips(s) ==
    LET kept == IF s.clamped THEN SubSeq(s.lines, 1, Len(s.lines) - 1) ELSE s.lines
    IN  IF s.exc # "none" THEN s
        ELSE [s EXCEPT !.lines_drawn = Len(kept),
                       !.actual_tagline_end = TaglineExtent(kept, s.tagline_start_y),
                       !.saved = TRUE]

\* The drawing loop over the wrapped lines, then img.save(output_path).
DrawAndSave(s) ==
    IF s.exc # "none" THEN s
    ELSE [s EXCEPT !.lines_drawn = Len(s.lines),
                   !.actual_tagline_end = TaglineExtent(s.lines, s.tagline_start_y),
                   !.saved = TRUE]

\* compose_card's locals before the first statement that computes one.
Locals(inp, prev) ==
    LET d == EnterLayout(prev)
    IN  [exc |-> "none",
         titleLen |-> inp.titleLen, lines |-> inp.lines,
         aw |-> inp.img[1], ah |-> inp.img[2], readable |-> inp.readable,
         BOTTOM_PADDING |-> d.BOTTOM_PADDING,
         MIN_GAP_TITLE_IMAGE |-> d.MIN_GAP_TITLE_IMAGE,
         MIN_GAP_IMAGE_TAGLINE |-> d.MIN_GAP_IMAGE_TAGLINE,
         tw_nominal |-> 0, font_size |-> 0, tw |-> 0, th |-> 0, title_bottom |-> 0,
         tagline_total_height |-> 0, first_budget |-> 0, max_art_height |-> 0,
         budget_at_place |-> 0, aw2 |-> 0, ah2 |-> 0, art_x |-> 0, art_y |-> 0,
         illus_top |-> 0, actual_image_bottom |-> 0,
         pasted |-> [x |-> 0, y |-> 0, w |-> 0, h |-> 0], text_x2 |-> 0,
         measured_tagline_height |-> 0, start_before_clamp |-> 0,
         tagline_start_y |-> 0, lines_drawn |-> 0, actual_tagline_end |-> 0,
         adjustedGaps |-> FALSE, reducedPadding |-> FALSE, placed |-> FALSE,
         corrected |-> FALSE, critical |-> FALSE, composited |-> FALSE,
         titleDrawn |-> FALSE, pulledUp |-> FALSE, wontFit |-> FALSE,
         reshrunk |-> FALSE, cannotFit |-> FALSE, clamped |-> FALSE, saved |-> FALSE]

\* compose_card, from its first statement to its return or raise.
ComposeCard(inp, font, prev) ==
    DrawAndSave(FinalClamp(TaglinePlacement(TitleDraw(Composite(
        FinalVerification(OverflowCorrection(PlaceIllustration(ImageBudget(
            OpenIllustration(TaglineSize(TitleFit(font, Locals(inp, prev)))))))))))))

\* The layout locals a call leaves behind.
FrameOf(s) ==
    [BOTTOM_PADDING |-> s.BOTTOM_PADDING,
     MIN_GAP_TITLE_IMAGE |-> s.MIN_GAP_TITLE_IMAGE,
     MIN_GAP_IMAGE_TAGLINE |-> s.MIN_GAP_IMAGE_TAGLINE]

----------------------------------------------------------------------------
(* The inputs of one card: the CSV row and the illustration file            *)

\* A wrapped tagline of n lines: n - 1 lines whose bbox bottom is b, then one
\* whose bbox bottom is last.
TagLines(n, b, last) == [i \in 1..n |-> IF i < n THEN b ELSE last]

\* Number of characters of the title: one that fits at the nominal size and
\* one that overflows in either font.
TitleLens == {8, 120}

\* Short; long with a first budget of exactly 200; one pixel past the point
\* where only the gaps give; bottom padding reduced; taller than the canvas.
Taglines ==
    {TagLines(2, 65, 74), TagLines(13, 65, 74), TagLines(15, 65, 73),
     TagLines(15, 65, 74), TagLines(18, 65, 65)}

\* Illustration sizes: square, 10:1 and 1:10.
Images == {<<1024, 1024>>, <<2560, 256>>, <<256, 2560>>}

CardInputs ==
    [titleLen : TitleLens, lines : Taglines, img : Images, readable : {TRUE}]

\* The rows of a small CSV: one title and illustration, a tagline that fits,
\* one that makes the gaps give, one that costs the bottom padding and one
\* that leaves no room for the illustration.
BatchInputs ==
    [titleLen : {8},
     lines : {TagLines(2, 65, 74), TagLines(15, 65, 73), TagLines(15, 65, 74),
              TagLines(18, 65, 65)},
     img : {<<1024, 1024>>}, readable : {TRUE}]

\* Rows and files whose illustration scales to nothing: a tagline that leaves
\* a budget of exactly 0 under an 8-character TrueType title, one that leaves
\* 4 rows for a 1:10 illustration (width 0), and a 1024:1 illustration
\* (height 0 at any budget).
DegenerateInputs ==
    {[titleLen |-> 8, lines |-> TagLines(18, 65, 49), img |-> <<1024, 1024>>,
      readable |-> TRUE],
     [titleLen |-> 8, lines |-> TagLines(18, 65, 45), img |-> <<256, 2560>>,
      readable |-> TRUE],
     [titleLen |-> 8, lines |-> TagLines(2, 65, 74), img |-> <<2048, 2>>,
      readable |-> TRUE]}

\* A file that Image.open cannot read.
CorruptInput ==
    [titleLen |-> 8, lines |-> TagLines(2, 65, 74), img |-> <<1024, 1024>>,
     readable |-> FALSE]

----------------------------------------------------------------------------
(* __main__: the batch driver                                               *)

\* The record kept for one finished loop iteration.
Card(outcome, exc, inp, lay) ==
    [outcome |-> outcome, exc |-> exc, inp |-> inp, lay |-> lay,
     written |-> lay.saved]

NotComposed == Locals(CorruptInput, LayoutDefaults)

\* An exception leaving the try body: caught and the loop goes on, or it
\* propagates out of the script.
EndIteration(card) ==
    /\ cards' = Append(cards, card)
    /\ IF card.exc = "none" \/ Caught(card.exc)
       THEN pc' = pc /\ exitStatus' = exitStatus
       ELSE pc' = "exit" /\ exitStatus' = 1

OtherRuns == <<listing, found, rawTitle, slug, slugAgain, outputName, phase>>

CheckTemplate ==
    /\ pc = "start"
    /\ IF templateExists
       THEN pc' = "find" /\ exitStatus' = exitStatus
       ELSE pc' = "exit" /\ exitStatus' = 1
    /\ UNCHANGED <<templateExists, dirFiles, titleFont, nImages, cards, frame, OtherRuns>>

\* persona_images is empty: print and exit(1)
NoImages ==
    /\ pc = "find"
    /\ dirFiles = 0
    /\ nImages' = 0
    /\ pc' = "exit"
    /\ exitStatus' = 1
    /\ UNCHANGED <<templateExists, dirFiles, titleFont, cards, frame, OtherRuns>>

FoundImages ==
    /\ pc = "find"
    /\ dirFiles > 0
    /\ nImages' = dirFiles
    /\ pc' = "loop"
    /\ UNCHANGED <<templateExists, dirFiles, titleFont, cards, frame, exitStatus, OtherRuns>>

\* lookup_persona_from_csv raises ValueError: no row has this Persona Number
LookupFails ==
    /\ pc = "loop"
    /\ Len(cards) < nImages
    /\ EndIteration(Card("not_in_csv", "ValueError", CorruptInput, NotComposed))
    /\ UNCHANGED <<templateExists, dirFiles, titleFont, nImages, frame, OtherRuns>>

\* the illustration is gone by the time its turn comes: continue
IllustrationMissing ==
    /\ pc = "loop"
    /\ Len(cards) < nImages
    /\ EndIteration(Card("missing", "none", CorruptInput, NotComposed))
    /\ UNCHANGED <<templateExists, dirFiles, titleFont, nImages, frame, OtherRuns>>

\* the row is found, the file exists: compose_card runs
Compose(inputs) ==
    /\ pc = "loop"
    /\ Len(cards) < nImages
    /\ \E inp \in inputs :
         LET s == ComposeCard(inp, titleFont, frame)
         IN  /\ frame' = FrameOf(s)
             /\ EndIteration(Card(IF s.exc = "none" THEN "saved" ELSE "error",
                                  s.exc, inp, s))
    /\ UNCHANGED <<templateExists, dirFiles, titleFont, nImages, OtherRuns>>

\* the list is exhausted: print("Done!")
Finish ==
    /\ pc = "loop"
    /\ Len(cards) = nImages
    /\ pc' = "done"
    /\ exitStatus' = 0
    /\ UNCHANGED <<templateExists, dirFiles, titleFont, nImages, cards, frame, OtherRuns>>

\* The state before the first statement of __main__, in a directory holding
\* up to limit illustrations.
InitWith(limit) ==
    /\ pc = "start"
    /\ templateExists \in BOOLEAN
    /\ dirFiles \in 0..limit
    /\ titleFont \in {"truetype", "default"}
    /\ nImages = -1
    /\ cards = <<>>
    /\ frame = LayoutDefaults
    /\ exitStatus = -1
    /\ listing = <<>>
    /\ found = <<>>
    /\ rawTitle = <<>>
    /\ slug = <<>>
    /\ slugAgain = <<>>
    /\ outputName = <<>>
    /\ phase = "batch"

\* A batch of up to MaxCards illustrations over a small CSV.
Next ==
    \/ CheckTemplate
    \/ NoImages
    \/ FoundImages
    \/ LookupFails
    \/ IllustrationMissing
    \/ Compose(BatchInputs \cup DegenerateInputs \cup {CorruptInput})
    \/ Finish

Init == InitWith(MaxCards)

Spec == Init /\ [][Next]_vars

\* Up to MaxRuns illustrations over the whole input envelope.
NextLayout ==
    \/ CheckTemplate
    \/ NoImages
    \/ FoundImages
    \/ LookupFails
    \/ IllustrationMissing
    \/ Compose(CardInputs \cup {CorruptInput})
    \/ Finish

InitLayout == InitWith(MaxRuns)

SpecLayout == InitLayout /\ [][NextLayout]_vars

----------------------------------------------------------------------------
(* Claims about the layout of one card                                      *)

Done == 1..Len(cards)

Lay(i) == cards[i].lay

ImageBottom(i) == Lay(i).pasted.y + Lay(i).pasted.h

TaglineEnd(i) == Lay(i).tagline_start_y + Lay(i).measured_tagline_height

\* C1: every written card has title, image and tagline stacked with the gaps
\* in force between them, and the tagline ends above the bottom padding.
C1_WrittenCardsAreStacked ==
    \A i \in Done :
        cards[i].written =>
            /\ Lay(i).title_bottom + Lay(i).MIN_GAP_TITLE_IMAGE <= Lay(i).pasted.y
            /\ ImageBottom(i) + Lay(i).MIN_GAP_IMAGE_TAGLINE <= Lay(i).tagline_start_y
            /\ TaglineEnd(i) <= CANVAS_HEIGHT - Lay(i).BOTTOM_PADDING

\* C2: whenever the tagline start is moved up (pull-up or final clamp), it
\* stays at least 10 px below the bottom of the composited illustration.
C2_MovedTaglineKeepsMinimumGap ==
    \A i \in Done :
        (Lay(i).composited /\ (Lay(i).pulledUp \/ Lay(i).clamped)) =>
            Lay(i).tagline_start_y >= ImageBottom(i) + 10

\* The final layout does not keep the tagline clear of the illustration and
\* inside the bottom limit.
DoesNotFit(i) ==
    /\ Lay(i).composited
    /\ \/ Lay(i).tagline_start_y < ImageBottom(i) + 10
       \/ TaglineEnd(i) > CANVAS_HEIGHT - Lay(i).BOTTOM_PADDING
       \/ Lay(i).cannotFit

\* C3: a layout that cannot fit ends in a layout-overflow error at the batch
\* loop and no file is written for the card.
C3_OverflowIsAnErrorAndNothingIsWritten ==
    \A i \in Done :
        DoesNotFit(i) =>
            /\ ~cards[i].written
            /\ cards[i].outcome = "error"
            /\ cards[i].exc = "LayoutOverflowError"

\* Both cards were composited from the same title and illustration.
SameTitleAndImage(i, j) ==
    /\ Lay(i).composited /\ Lay(j).composited
    /\ cards[i].inp.titleLen = cards[j].inp.titleLen
    /\ cards[i].inp.img = cards[j].inp.img

\* The composited card keeps room for the whole tagline under the image, and
\* the tagline is drawn in full.
TaglineKeptWhole(i) ==
    /\ ImageBottom(i) + Lay(i).MIN_GAP_IMAGE_TAGLINE + Lay(i).tagline_total_height
           <= CANVAS_HEIGHT - Lay(i).BOTTOM_PADDING
    /\ Lay(i).lines_drawn = Len(cards[i].inp.lines)
    /\ Lay(i).measured_tagline_height = Lay(i).tagline_total_height
    /\ Lay(i).actual_tagline_end - Lay(i).tagline_start_y
           = Lay(i).tagline_total_height - TAGLINE_SAFETY_MARGIN

\* C5 as stated: the tagline always keeps its room and its lines, and for a
\* fixed title and illustration a taller tagline never yields a taller
\* illustration.
C5_TallerTaglineNeverTallerImage ==
    /\ \A i \in Done : Lay(i).composited => TaglineKeptWhole(i)
    /\ \A i, j \in Done :
         (SameTitleAndImage(i, j)
             /\ Lay(i).tagline_total_height < Lay(j).tagline_total_height)
         => Lay(j).pasted.h <= Lay(i).pasted.h

\* C5 amended: the same, where the card with the taller tagline kept the
\* default gaps and bottom padding (its first budget was at least 200).
C5_TallerTaglineShrinksImageOnNormalPath ==
    /\ \A i \in Done : Lay(i).composited => TaglineKeptWhole(i)
    /\ \A i, j \in Done :
         (SameTitleAndImage(i, j)
             /\ Lay(i).tagline_total_height < Lay(j).tagline_total_height
             /\ ~Lay(j).adjustedGaps /\ ~Lay(j).reducedPadding)
         => Lay(j).pasted.h <= Lay(i).pasted.h

\* Witness of C5: the same title and illustration with a taller tagline on
\* the normal path, composited smaller and with all 13 lines drawn.
C5_Witness ==
    \E i, j \in Done :
        /\ SameTitleAndImage(i, j)
        /\ Lay(i).tagline_total_height < Lay(j).tagline_total_height
        /\ ~Lay(j).adjustedGaps /\ ~Lay(j).reducedPadding
        /\ Lay(j).pasted.h < Lay(i).pasted.h
        /\ Lay(j).saved /\ Lay(j).lines_drawn = 13

\* C6: a title wider than the padded width is drawn at int(120 * avail / width)
\* and then measures at most the padded width, a narrower one keeps size 120,
\* and the drawn title lies within the horizontal padding.
C6_TitleFitsPaddedWidth ==
    \A i \in Done :
        Lay(i).titleDrawn =>
            LET avail == CANVAS_WIDTH - 2 * HORIZONTAL_PADDING
                tw0   == Lay(i).tw_nominal
            IN  /\ tw0 > avail =>
                     /\ Lay(i).font_size * tw0 <= TITLE_FONT_SIZE * avail
                     /\ (Lay(i).font_size + 1) * tw0 > TITLE_FONT_SIZE * avail
                     /\ Lay(i).tw <= avail
                /\ tw0 <= avail => Lay(i).font_size = TITLE_FONT_SIZE
                /\ Lay(i).text_x2 >= 2 * HORIZONTAL_PADDING
                /\ Lay(i).text_x2 + 2 * Lay(i).tw
                       <= 2 * (CANVAS_WIDTH - HORIZONTAL_PADDING)

\* C7: the composited illustration is the original scaled by one factor, the
\* smaller of the width and height ratios: it fits the padded width and the
\* height budget, fills one of them, keeps its aspect ratio up to truncation,
\* is centred horizontally and starts at title_bottom + title-image gap.
C7_IllustrationScaledAndCentred ==
    \A i \in Done :
        Lay(i).composited =>
            LET w  == Lay(i).pasted.w
                h  == Lay(i).pasted.h
                x  == Lay(i).pasted.x
                aw == cards[i].inp.img[1]
                ah == cards[i].inp.img[2]
                max_w == CANVAS_WIDTH - 2 * HORIZONTAL_PADDING
                max_h == Lay(i).budget_at_place
            IN  /\ w <= max_w /\ h <= max_h
                /\ w = max_w \/ h = max_h
                /\ w * ah - h * aw < Max(aw, ah)
                /\ h * aw - w * ah < Max(aw, ah)
                /\ x >= HORIZONTAL_PADDING
                /\ x + w <= CANVAS_WIDTH - HORIZONTAL_PADDING
                /\ (CANVAS_WIDTH - (x + w)) - x \in {0, 1}
                /\ Lay(i).pasted.y = Lay(i).title_bottom + Lay(i).MIN_GAP_TITLE_IMAGE

\* Witness of C7: a 10:1 illustration bound by the width and a 1:10 one bound
\* by the height, both composited.
C7_Witness ==
    \E i, j \in Done :
        /\ Lay(i).composited /\ cards[i].inp.img = <<2560, 256>>
        /\ Lay(i).pasted.w = 680 /\ Lay(i).pasted.h = 68
        /\ Lay(j).composited /\ cards[j].inp.img = <<256, 2560>>
        /\ Lay(j).pasted.h = Lay(j).budget_at_place /\ Lay(j).pasted.w < 680

----------------------------------------------------------------------------
(* Claims about the batch driver                                            *)

RunEnded == pc \in {"done", "exit"}

\* Once the list is found, the run ends only after every identifier of it
\* had its iteration.
EveryIdentifierHadItsTurn == (RunEnded /\ nImages > 0) => Len(cards) = nImages

\* C4 as stated: a failing identifier never keeps a later one from being
\* processed, and the exit status is non-zero only when no illustration
\* file was found.
C4_NonZeroExitOnlyWithoutIllustrations ==
    /\ EveryIdentifierHadItsTurn
    /\ (RunEnded /\ exitStatus # 0) => dirFiles = 0

\* C4 amended: the exit status is non-zero only when no illustration file
\* was found or the template file is missing.
C4_NonZeroExitOnlyWithoutIllustrationsOrTemplate ==
    /\ EveryIdentifierHadItsTurn
    /\ (RunEnded /\ exitStatus # 0) => (dirFiles = 0 \/ ~templateExists)
    /\ (RunEnded /\ exitStatus = 0) => (pc = "done" /\ dirFiles > 0 /\ templateExists)

\* Witness of C4: a run of three identifiers ends with status 0 after the
\* first was not in the CSV and the second failed inside compose_card.
C4_Witness ==
    /\ pc = "done" /\ exitStatus = 0 /\ Len(cards) = 3
    /\ cards[1].outcome = "not_in_csv"
    /\ cards[2].outcome = "error"
    /\ cards[3].outcome = "saved"

Composed(i) == cards[i].outcome \in {"saved", "error"}

\* C10: two calls of compose_card on the same inputs compute the same layout,
\* whatever was laid out before or in between, and a call that adjusts
\* nothing runs with the default gaps and bottom padding.
C10_LayoutDependsOnlyOnOwnInputs ==
    /\ \A i, j \in Done :
         (Composed(i) /\ Composed(j) /\ cards[i].inp = cards[j].inp)
         => cards[i].lay = cards[j].lay
    /\ \A i \in Done :
         (Composed(i) /\ ~Lay(i).adjustedGaps /\ ~Lay(i).reducedPadding)
         => FrameOf(Lay(i)) = LayoutDefaults

\* Witness of C10: the same inputs before and after a card whose layout
\* reduced the gaps or the bottom padding, both saved with the same layout.
C10_Witness ==
    \E i, j, k \in Done :
        /\ i < j /\ j < k
        /\ cards[i].inp = cards[k].inp
        /\ cards[i].written /\ cards[k].written
        /\ ~Lay(i).adjustedGaps /\ ~Lay(i).reducedPadding
        /\ Lay(j).composited
        /\ Lay(j).adjustedGaps \/ Lay(j).reducedPadding
        /\ cards[i].lay = cards[k].lay

----------------------------------------------------------------------------
(* Claims about the corrective steps of the layout                          *)

\* Height left for the illustration of card i with the bottom padding at its
\* default when the two gaps take gaps pixels together.
RoomAtFullPadding(i, gaps) ==
    CANVAS_HEIGHT - Lay(i).title_bottom - gaps - Lay(i).tagline_total_height
        - LayoutDefaults.BOTTOM_PADDING

PlacedBottom(i) ==
    Lay(i).illus_top
        + ScaledSize(cards[i].inp.img[1], cards[i].inp.img[2],
                     CANVAS_WIDTH - 2 * HORIZONTAL_PADDING, Lay(i).budget_at_place)[2]

\* Lowest image bottom that leaves room for the gap, the tagline and the
\* bottom padding of card i.
FitLimit(i) ==
    CANVAS_HEIGHT - Lay(i).MIN_GAP_IMAGE_TAGLINE - Lay(i).tagline_total_height
        - Lay(i).BOTTOM_PADDING

\* No corrective branch was entered while card i was laid out.
NoCorrection(i) ==
    /\ ~Lay(i).corrected /\ ~Lay(i).critical
    /\ ~Lay(i).pulledUp /\ ~Lay(i).wontFit /\ ~Lay(i).reshrunk /\ ~Lay(i).cannotFit

\* C12: on every budget path the illustration as first placed ends at or
\* above the fit limit, no corrective branch is entered, the tagline start
\* is first set to image bottom + gap, and only the final clamp moves it.
C12_FirstBudgetGuaranteesFit ==
    \A i \in Done :
        Lay(i).placed =>
            /\ PlacedBottom(i) <= FitLimit(i)
            /\ NoCorrection(i)
            /\ Lay(i).actual_image_bottom = PlacedBottom(i)
            /\ Lay(i).saved =>
                   /\ Lay(i).start_before_clamp
                          = ImageBottom(i) + Lay(i).MIN_GAP_IMAGE_TAGLINE
                   /\ Lay(i).tagline_start_y # Lay(i).start_before_clamp
                          => Lay(i).clamped

\* Witness of C12: a card on the reduced-gaps path and one on the
\* reduced-padding path, both placed exactly at the fit limit and saved
\* without correction, the first with its tagline moved by the final clamp.
C12_Witness ==
    \E i, j \in Done :
        /\ Lay(i).saved /\ Lay(i).adjustedGaps /\ NoCorrection(i)
        /\ PlacedBottom(i) = FitLimit(i)
        /\ Lay(i).clamped
        /\ Lay(i).tagline_start_y < ImageBottom(i) + Lay(i).MIN_GAP_IMAGE_TAGLINE
        /\ Lay(j).saved /\ Lay(j).reducedPadding /\ NoCorrection(j)
        /\ PlacedBottom(j) = FitLimit(j)

\* C13: in a written card the rectangle that was composited is the one the
\* layout ends with: same position and size, its bottom is the image bottom
\* the tagline was positioned against, and no resize followed the composite.
C13_CompositedRectangleIsFinal ==
    \A i \in Done :
        cards[i].written =>
            /\ Lay(i).pasted = [x |-> Lay(i).art_x, y |-> Lay(i).art_y,
                                w |-> Lay(i).aw2, h |-> Lay(i).ah2]
            /\ Lay(i).actual_image_bottom = ImageBottom(i)
            /\ ~Lay(i).reshrunk

\* Witness of C13: a written card whose illustration fills its height budget
\* on the reduced-gaps path; the tagline was positioned after the composite,
\* against the bottom of the composited rectangle, and then clamped.
C13_Witness ==
    \E i \in Done :
        /\ cards[i].written /\ Lay(i).adjustedGaps
        /\ Lay(i).pasted.h = Lay(i).budget_at_place
        /\ Lay(i).pasted.h = Lay(i).ah2
        /\ Lay(i).actual_image_bottom = Lay(i).pasted.y + Lay(i).pasted.h
        /\ Lay(i).clamped

\* The size the first budget of card i scales its illustration to.
FirstSize(i) ==
    ScaledSize(cards[i].inp.img[1], cards[i].inp.img[2],
               CANVAS_WIDTH - 2 * HORIZONTAL_PADDING, Lay(i).max_art_height)

\* compose_card got as far as the height budget of card i, and the budget is
\* zero or negative or the scaled size is empty on one axis.
NothingToPaste(i) ==
    /\ Composed(i) /\ cards[i].inp.readable
    /\ \/ Lay(i).max_art_height <= 0
       \/ FirstSize(i)[1] < 1
       \/ FirstSize(i)[2] < 1

\* C14: a written card carries an illustration of at least 1x1 pixels; when
\* the budget is zero or negative or the scaled size is empty on an axis,
\* the resize raises, nothing is composited or saved, the loop catches the
\* error, and the run goes on to the end of the list with status 0.
C14_WrittenCardsCarryAnIllustration ==
    /\ \A i \in Done :
         cards[i].written =>
             /\ Lay(i).composited
             /\ Lay(i).pasted.w >= 1 /\ Lay(i).pasted.h >= 1
    /\ \A i \in Done :
         NothingToPaste(i) =>
             /\ cards[i].exc = "ValueError" /\ Caught(cards[i].exc)
             /\ cards[i].outcome = "error"
             /\ ~Lay(i).placed /\ ~Lay(i).composited /\ ~cards[i].written
             /\ pc \in {"loop", "done"}
             /\ RunEnded => (exitStatus = 0 /\ Len(cards) = nImages)

\* Witness of C14: a finished run of three identifiers: the first left a
\* budget of zero or less, the second a positive budget that scales a 1:10
\* illustration to width 0, the third was written with its illustration.
C14_Witness ==
    /\ pc = "done" /\ Len(cards) = 3
    /\ NothingToPaste(1) /\ Lay(1).max_art_height <= 0
    /\ NothingToPaste(2) /\ Lay(2).max_art_height > 0 /\ FirstSize(2)[1] = 0
    /\ cards[3].written /\ Lay(3).pasted.h >= 1

----------------------------------------------------------------------------
(* Strings: sequences of one-character strings                              *)

Digits == {"0", "1", "2", "3", "4", "5", "6", "7", "8", "9"}

IsDigit(c) == c \in Digits

\* str.isalnum for the characters used here
IsAlnum(c) == c \in Digits \cup {"C", "o", "P", "X", "p", "g", "j", "n"}

\* \w of the re module: alphanumerics and the underscore
IsWord(c) == IsAlnum(c) \/ c = "_"

\* \s of the re module
IsSpace(c) == c \in {" ", "\t"}

\* Code point of a character, for Python's string ordering.
Code(c) ==
    CASE c = "\t" -> 9   [] c = " " -> 32  [] c = "!" -> 33  [] c = "-" -> 45
      [] c = "." -> 46   [] c = "0" -> 48  [] c = "1" -> 49  [] c = "2" -> 50
      [] c = "3" -> 51   [] c = "4" -> 52  [] c = "5" -> 53  [] c = "6" -> 54
      [] c = "7" -> 55   [] c = "8" -> 56  [] c = "9" -> 57  [] c = "C" -> 67
      [] c = "P" -> 80   [] c = "X" -> 88  [] c = "_" -> 95  [] c = "g" -> 103
      [] c = "j" -> 106  [] c = "n" -> 110 [] c = "o" -> 111 [] c = "p" -> 112

\* a < b for Python strings
RECURSIVE StrLess(_, _)
StrLess(a, b) ==
    IF b = <<>> THEN FALSE
    ELSE IF a = <<>> THEN TRUE
    ELSE IF a[1] # b[1] THEN Code(a[1]) < Code(b[1])
    ELSE StrLess(Tail(a), Tail(b))

PngExt == <<".", "p", "n", "g">>

----------------------------------------------------------------------------
(* find_persona_images                                                      *)

\* glob "P*.png" on the file name
GlobMatch(name) ==
    /\ Len(name) >= 5
    /\ name[1] = "P"
    /\ SubSeq(name, Len(name) - 3, Len(name)) = PngExt

\* re.compile(r'^P(\d+)', re.IGNORECASE).search(filename)
RegexMatch(name) ==
    /\ Len(name) >= 2
    /\ name[1] \in {"P", "p"}
    /\ IsDigit(name[2])

\* match.group(1): the digits from position i on
RECURSIVE DigitRun(_, _)
DigitRun(name, i) ==
    IF i <= Len(name) /\ IsDigit(name[i])
    THEN <<name[i]>> \o DigitRun(name, i + 1)
    ELSE <<>>

\* Mutation of Zfill: no padding.
Zfill_none(d, width) == d

\* str.zfill(width) of a string of digits
RECURSIVE Zfill(_, _)
Zfill(d, width) == IF Len(d) < width THEN Zfill(<<"0">> \o d, width) ELSE d

\* f"P{match.group(1).zfill(3)}"
PersonaNumber(name) == <<"P">> \o Zfill(DigitRun(name, 2), 3)

\* a <= b for the (persona_number, file) tuples; the files of one directory
\* compare as their names do
TupleLeq(a, b) ==
    IF a[1] # b[1] THEN StrLess(a[1], b[1]) ELSE ~StrLess(b[2], a[2])

RECURSIVE Insert(_, _)
Insert(sorted, e) ==
    IF sorted = <<>> THEN <<e>>
    ELSE IF TupleLeq(e, sorted[1]) THEN <<e>> \o sorted
    ELSE <<sorted[1]>> \o Insert(Tail(sorted), e)

\* sorted(persona_images)
RECURSIVE Sorted(_)
Sorted(seq) == IF seq = <<>> THEN <<>> ELSE Insert(Sorted(Tail(seq)), seq[1])

\* the loop over glob's files
RECURSIVE Collect(_)
Collect(files) ==
    IF files = <<>> THEN <<>>
    ELSE IF RegexMatch(files[1])
    THEN <<<<PersonaNumber(files[1]), files[1]>>>> \o Collect(Tail(files))
    ELSE Collect(Tail(files))

FindPersonaImages(files) == Sorted(Collect(SelectSeq(files, GlobMatch)))

\* Strings of n digits over 0 and 7
DigitStrings(n) == [1..n -> {"0", "7"}]

\* File names: P and up to MaxDigits digits, with and without trailing text,
\* a four-digit number, other first letters, another extension.
FileNames ==
    {<<"P">> \o d \o t \o PngExt :
        d \in UNION {DigitStrings(n) : n \in 0..MaxDigits},
        t \in {<<>>, <<"_", "7">>}}
    \cup {<<"P", "0", "0", "0", "7">> \o PngExt,
          <<"X", "0", "0", "7">> \o PngExt,
          <<"p", "0", "0", "7">> \o PngExt,
          <<"P", "0", "0", "7", ".", "j", "p", "g">>}

\* Directory listings: up to MaxFiles distinct names, in any order.
Listings ==
    {l \in UNION {[1..n -> FileNames] : n \in 0..MaxFiles} :
        \A a, b \in 1..Len(l) : a # b => l[a] # l[b]}

BatchIdle ==
    /\ pc = "idle"
    /\ templateExists = TRUE
    /\ dirFiles = 0
    /\ titleFont = "truetype"
    /\ nImages = -1
    /\ cards = <<>>
    /\ frame = LayoutDefaults
    /\ exitStatus = -1

BatchVars == <<pc, templateExists, dirFiles, titleFont, nImages, cards, frame, exitStatus>>

InitFind ==
    /\ BatchIdle
    /\ listing \in Listings
    /\ found = <<>>
    /\ rawTitle = <<>>
    /\ slug = <<>>
    /\ slugAgain = <<>>
    /\ outputName = <<>>
    /\ phase = "dir"

Find ==
    /\ phase = "dir"
    /\ found' = FindPersonaImages(listing)
    /\ phase' = "found"
    /\ UNCHANGED <<BatchVars, listing, rawTitle, slug, slugAgain, outputName>>

NextFind == Find

SpecFind == InitFind /\ [][NextFind]_vars

----------------------------------------------------------------------------
(* Claims about find_persona_images                                         *)

\* The name is the prefix letter, one or more digits, any text, ".png".
StartsWithPrefixAndDigit(name) ==
    /\ Len(name) >= 6
    /\ name[1] = "P"
    /\ IsDigit(name[2])
    /\ SubSeq(name, Len(name) - 3, Len(name)) = PngExt

\* The identifier the claim gives such a name: the prefix, then the leading
\* digits left-padded with zeros to three places.
ExpectedIdentifier(name) ==
    LET n == CHOOSE k \in 1..(Len(name) - 5) :
                 /\ \A q \in 2..(k + 1) : IsDigit(name[q])
                 /\ ~IsDigit(name[k + 2])
        digits == SubSeq(name, 2, n + 1)
    IN  <<"P">> \o (IF n < 3 THEN [q \in 1..(3 - n) |-> "0"] ELSE <<>>) \o digits

\* C8: every name that starts with the prefix letter and a digit appears in
\* the result with the zero-padded identifier, every other name is skipped,
\* and the result is sorted by identifier.
C8_FilesMapToPaddedIdentifiersSorted ==
    phase = "found" =>
        /\ \A k \in 1..Len(listing) :
             StartsWithPrefixAndDigit(listing[k]) =>
                 \E e \in 1..Len(found) :
                     found[e] = <<ExpectedIdentifier(listing[k]), listing[k]>>
        /\ \A e \in 1..Len(found) :
             /\ \E k \in 1..Len(listing) : listing[k] = found[e][2]
             /\ StartsWithPrefixAndDigit(found[e][2])
        /\ Len(found) =
               Cardinality({k \in 1..Len(listing) : StartsWithPrefixAndDigit(listing[k])})
        /\ \A a, b \in 1..Len(found) :
             a < b => ~StrLess(found[b][1], found[a][1])

\* Witness of C8: "P7_7.png" listed before "P0.png"; the result gives P000
\* first, then P007 for the name with trailing text.
C8_Witness ==
    /\ phase = "found"
    /\ listing = << <<"P", "7", "_", "7">> \o PngExt, <<"P", "0">> \o PngExt >>
    /\ found = << << <<"P", "0", "0", "0">>, <<"P", "0">> \o PngExt >>,
                  << <<"P", "0", "0", "7">>, <<"P", "7", "_", "7">> \o PngExt >> >>

----------------------------------------------------------------------------
(* The output file name (__main__) and the title lookup_persona_from_csv    *)
(* returns                                                                  *)

\* str.strip(): leading and trailing whitespace removed
RECURSIVE StripSpace(_)
StripSpace(t) ==
    IF t = <<>> THEN t
    ELSE IF IsSpace(t[1]) THEN StripSpace(Tail(t))
    ELSE IF IsSpace(t[Len(t)]) THEN StripSpace(SubSeq(t, 1, Len(t) - 1))
    ELSE t

\* re.sub(r'[^\w\s-]', '', title)
RemoveSpecial(t) == SelectSeq(t, LAMBDA c : IsWord(c) \/ IsSpace(c) \/ c = "-")

\* re.sub(r'[\s-]+', '_', title): inRun says the previous character was
\* part of the run being replaced
RECURSIVE CollapseRuns(_, _)
CollapseRuns(t, inRun) ==
    IF t = <<>> THEN <<>>
    ELSE IF IsSpace(t[1]) \/ t[1] = "-"
    THEN (IF inRun THEN <<>> ELSE <<"_">>) \o CollapseRuns(Tail(t), TRUE)
    ELSE <<t[1]>> \o CollapseRuns(Tail(t), FALSE)

\* Mutation of StripUnderscores: nothing is trimmed.
StripUnderscores_none(t) == t

\* str.strip('_')
RECURSIVE StripUnderscores(_)
StripUnderscores(t) ==
    IF t = <<>> THEN t
    ELSE IF t[1] = "_" THEN StripUnderscores(Tail(t))
    ELSE IF t[Len(t)] = "_" THEN StripUnderscores(SubSeq(t, 1, Len(t) - 1))
    ELSE t

\* persona_title_safe
Slugify(title) == StripUnderscores(CollapseRuns(RemoveSpecial(title), FALSE))

\* f"{persona_number}_{persona_title_safe}.png"
OutputFilename(persona_number, title) ==
    persona_number \o <<"_">> \o Slugify(title) \o PngExt

\* The characters a CSV cell is made of here: letters, a digit, underscore,
\* space, hyphen, punctuation.
TitleChars == {"C", "o", "7", "_", " ", "-", "!"}

RawTitles == UNION {[1..n -> TitleChars] : n \in 0..MaxTitleLen}

InitSlug ==
    /\ BatchIdle
    /\ listing = <<>>
    /\ found = <<>>
    /\ rawTitle \in RawTitles
    /\ slug = <<>>
    /\ slugAgain = <<>>
    /\ outputName = <<>>
    /\ phase = "row"

\* the row is looked up (the title stripped) and the file name built
BuildOutputName ==
    /\ phase = "row"
    /\ slug' = Slugify(StripSpace(rawTitle))
    /\ outputName' = OutputFilename(<<"P", "0", "0", "1">>, StripSpace(rawTitle))
    /\ phase' = "named"
    /\ UNCHANGED <<BatchVars, listing, found, rawTitle, slugAgain>>

\* the slug taken as a title again
SlugOfSlug ==
    /\ phase = "named"
    /\ slugAgain' = Slugify(slug)
    /\ phase' = "again"
    /\ UNCHANGED <<BatchVars, listing, found, rawTitle, slug, outputName>>

NextSlug ==
    \/ BuildOutputName
    \/ SlugOfSlug

SpecSlug == InitSlug /\ [][NextSlug]_vars

----------------------------------------------------------------------------
(* Claims about the output file name                                        *)

NoAdjacentUnderscores(t) ==
    \A k \in 1..(Len(t) - 1) : ~(t[k] = "_" /\ t[k + 1] = "_")

\* C9: the output name is identifier, underscore, slug, ".png"; the slug has
\* only alphanumerics and underscores, keeps the title's alphanumerics in
\* order, joins them with one underscore per run of whitespace and hyphens,
\* neither begins nor ends with an underscore, and is its own slug.
C9_SlugIsFilesystemSafeAndStable ==
    phase \in {"named", "again"} =>
        /\ outputName = <<"P", "0", "0", "1", "_">> \o slug \o PngExt
        /\ \A k \in 1..Len(slug) : IsWord(slug[k])
        /\ SelectSeq(slug, IsAlnum) = SelectSeq(rawTitle, IsAlnum)
        /\ (\A k \in 1..Len(rawTitle) : rawTitle[k] # "_") => NoAdjacentUnderscores(slug)
        /\ slug # <<>> => (slug[1] # "_" /\ slug[Len(slug)] # "_")
        /\ rawTitle = <<"C", " ", "o", "!">> => slug = <<"C", "_", "o">>
        /\ phase = "again" => slugAgain = slug

\* Witness of C9: "C o!" gives "C_o", which is its own slug.
C9_Witness ==
    /\ phase = "again"
    /\ rawTitle = <<"C", " ", "o", "!">>
    /\ slug = <<"C", "_", "o">>
    /\ slugAgain = slug
    /\ outputName = <<"P", "0", "0", "1", "_", "C", "_", "o", ".", "p", "n", "g">>

====
